---- MODULE Spec2Model ----
(***************************************************************************)
(* Model of server/index.js: an express application with four handlers     *)
(* that each validate their input, issue one outbound HTTP call (axios),   *)
(* and turn its outcome into one HTTP response.                            *)
(*                                                                         *)
(* One request is in flight at a time (the handlers share no state).  A    *)
(* handler is split at its single `await`: the <Route>Request action is    *)
(* the code up to the await, the <Route>Resume action is the code after    *)
(* it, with the outcome of the outbound call as its input.                 *)
(*                                                                         *)
(* Text that goes through encodeURIComponent is a sequence of characters;  *)
(* fixed words of the program ("LinkedIn", "error", ...) are single        *)
(* elements of such a sequence.  An optional JavaScript value is a         *)
(* sequence: <<>> when the property is undefined, <<v>> when it is v.      *)
(***************************************************************************)
EXTENDS Integers, Sequences, FiniteSets

VARIABLES env, pc, route, req, calls, upstream, responses

vars == <<env, pc, route, req, calls, upstream, responses>>

\* ------------------------------------------------------------------ bounds
MaxItems == 7       \* longest feed (number of <item> elements)
MaxStrLen == 2      \* longest query/body string
MaxArticles == 2    \* longest `articles` array posted to /generate-post

\* --------------------------------------------------------- program values
TopN == 5           \* slice(0, 5)

\* ------------------------------------------------------------ JS strings
Chars == {"a", "&"}

RECURSIVE StrsOfLen(_)
StrsOfLen(n) ==
  IF n = 0 THEN {<<>>}
  ELSE {<<c>> \o s : c \in Chars, s \in StrsOfLen(n - 1)}

Strs == UNION {StrsOfLen(n) : n \in 0..MaxStrLen}

\* the value of a query parameter or body property that was not sent
Undefined == <<"#undefined">>

StrVals == Strs \cup {Undefined}

\* JavaScript truthiness of a string-or-undefined value
Truthy(v) == v # Undefined /\ v # <<>>

\* a || b
Or(a, b) == IF Truthy(a) THEN a ELSE b

\* `${v}` : a template literal renders undefined as the word "undefined"
TemplateString(v) == IF v = Undefined THEN <<"undefined">> ELSE v

EncChar(c) ==
  IF c = " " THEN <<"%", "2", "0">>
  ELSE IF c = "&" THEN <<"%", "2", "6">>
  ELSE IF c = "%" THEN <<"%", "2", "5">>
  ELSE IF c = "=" THEN <<"%", "3", "D">>
  ELSE IF c = "?" THEN <<"%", "3", "F">>
  ELSE <<c>>

\* a handler that forgets to encode
encodeURIComponentId(s) == s

RECURSIVE encodeURIComponent(_)
encodeURIComponent(s) ==
  IF s = <<>> THEN <<>>
  ELSE EncChar(Head(s)) \o encodeURIComponent(Tail(s))

\* ------------------------------------------------- reading a redirect URL
\* What the browser (the frontend) reads back from the Location header.
DecHex(h, l) ==
  IF h = "2" /\ l = "0" THEN " "
  ELSE IF h = "2" /\ l = "6" THEN "&"
  ELSE IF h = "2" /\ l = "5" THEN "%"
  ELSE IF h = "3" /\ l = "D" THEN "="
  ELSE "?"

RECURSIVE decodeURIComponent(_)
decodeURIComponent(s) ==
  IF s = <<>> THEN <<>>
  ELSE IF Head(s) = "%" /\ Len(s) >= 3
    THEN <<DecHex(s[2], s[3])>> \o decodeURIComponent(SubSeq(s, 4, Len(s)))
    ELSE <<Head(s)>> \o decodeURIComponent(Tail(s))

RECURSIVE UpToAmp(_)
UpToAmp(s) ==
  IF s = <<>> \/ Head(s) = "&" THEN <<>>
  ELSE <<Head(s)>> \o UpToAmp(Tail(s))

\* the part of the URL after its first "?" (<<>> when there is none)
RECURSIVE QueryString(_)
QueryString(loc) ==
  IF loc = <<>> THEN <<>>
  ELSE IF Head(loc) = "?" THEN Tail(loc)
  ELSE QueryString(Tail(loc))

\* the decoded value of the first query parameter when its name is `name`
QueryValue(loc, name) ==
  LET q == QueryString(loc) IN
    IF Len(q) >= 2 /\ q[1] = name /\ q[2] = "="
      THEN decodeURIComponent(UpToAmp(SubSeq(q, 3, Len(q))))
      ELSE Undefined

\* ------------------------------------------------------------- responses
NoBody == [none |-> TRUE]

Json(status, body) ==
  [kind |-> "json", status |-> status, body |-> body, location |-> <<>>]

\* res.json(body) without res.status(): 200
JsonOk(body) == Json(200, body)

Redirect(loc) ==
  [kind |-> "redirect", status |-> 302, body |-> NoBody, location |-> loc]

\* ------------------------------------------------------------ environment
DefaultFrontendUrl == <<"http://localhost:3000">>

Envs == [FRONTEND_URL : {Undefined, <<"https://frontend.example">>}]

FrontendUrl(e) == Or(e.FRONTEND_URL, DefaultFrontendUrl)

NoUpstream == [kind |-> "none"]
NoReq == [none |-> TRUE]

\* ================================================================= /news
\* A feed item as xml2js delivers it: every child element is an array of
\* its occurrences, and a child that does not occur is no property at all.
ItemFull ==
  [title |-> << <<"T1">> >>, link |-> << <<"L1">> >>,
   pubDate |-> << <<"D1">> >>, description |-> << <<"desc1">> >>]
\* <title/> and <link/> are empty elements, <description> does not occur
ItemBlank ==
  [title |-> << <<"">> >>, link |-> << <<"">> >>,
   pubDate |-> << <<"D2">> >>, description |-> <<>>]
\* <title> does not occur
ItemNoTitle ==
  [title |-> <<>>, link |-> << <<"L3">> >>,
   pubDate |-> << <<"D3">> >>, description |-> << <<"">> >>]

ItemKinds == {ItemFull, ItemBlank, ItemNoTitle}

RECURSIVE FeedsOfLen(_)
FeedsOfLen(n) ==
  IF n = 0 THEN {<<>>}
  ELSE {<<i>> \o f : i \in ItemKinds, f \in FeedsOfLen(n - 1)}

Feeds == UNION {FeedsOfLen(n) : n \in 1..MaxItems}

\* The bodies the feed server can answer with.
\*   malformed : not well-formed XML
\*   blank     : an empty or all-whitespace body (parses to no document)
\*   other     : well-formed, root element is not <rss>
\*   emptyRss  : <rss/>
\*   noItems   : <rss><channel>...</channel></rss> without any <item>
\*   items     : <rss><channel> item+ </channel></rss>
FeedBodies ==
  {[xml |-> k, items |-> <<>>] :
      k \in {"malformed", "blank", "other", "emptyRss", "noItems"}}
  \cup {[xml |-> "items", items |-> f] : f \in Feeds}

NewsUpstreams ==
  {[kind |-> "fail", data |-> [xml |-> "none", items |-> <<>>]]}
  \cup {[kind |-> "ok", data |-> b] : b \in FeedBodies}

\* xml2js.parseString(data, cb): the arguments it calls cb with.
\* err is a BOOLEAN; result is <<>> for null, else <<document>>.
\* A document has the optional property rss; rss has the optional property
\* channel, an array of channels; a channel has the optional property item.
parseString(data) ==
  CASE data.xml = "malformed" -> [err |-> TRUE, result |-> <<>>]
    [] data.xml = "blank" -> [err |-> FALSE, result |-> <<>>]
    [] data.xml = "other" -> [err |-> FALSE, result |-> <<[rss |-> <<>>]>>]
    [] data.xml = "emptyRss" ->
         [err |-> FALSE, result |-> <<[rss |-> <<[channel |-> <<>>]>>]>>]
    [] data.xml = "noItems" ->
         [err |-> FALSE,
          result |-> <<[rss |-> <<[channel |-> << <<[item |-> <<>>]>> >>]>>]>>]
    [] OTHER ->
         [err |-> FALSE,
          result |->
            <<[rss |-> <<[channel |-> << <<[item |-> <<data.items>>]>> >>]>>]>>]

\* no slice at all
SliceAll(items, n) == items

\* items.slice(0, n)
Slice(items, n) == SubSeq(items, 1, IF Len(items) < n THEN Len(items) ELSE n)

\* does building the article throw (x[0] on an undefined property)?
ArticleThrows(item) ==
  item.title = <<>> \/ item.link = <<>> \/ item.pubDate = <<>>

\* the mapping without the placeholder for a missing description
ArticleNoPlaceholder(item) ==
  [title |-> item.title[1][1],
   link |-> item.link[1][1],
   pubDate |-> item.pubDate[1][1],
   description |-> IF item.description # <<>> THEN item.description[1][1] ELSE ""]

Article(item) ==
  [title |-> item.title[1][1],
   link |-> item.link[1][1],
   pubDate |-> item.pubDate[1][1],
   description |->
     IF item.description # <<>> THEN item.description[1][1]
     ELSE "No description available"]

\* The callback's code after its `if (err)` branch.  sent: the responses it
\* sends, in order; threw: whether it ends by throwing.
NewsCallbackResult(result) ==
  IF result = <<>> THEN
    \* result.rss on null: TypeError
    [sent |-> <<>>, threw |-> TRUE]
  ELSE IF \/ result[1].rss = <<>>
          \/ result[1].rss[1].channel = <<>>
          \/ Len(result[1].rss[1].channel[1]) = 0
          \/ result[1].rss[1].channel[1][1].item = <<>> THEN
    [sent |-> <<Json(404, [error |-> "No articles found for this keyword"])>>,
     threw |-> FALSE]
  ELSE
    LET items == Slice(result[1].rss[1].channel[1][1].item[1], TopN) IN
      IF \E i \in 1..Len(items) : ArticleThrows(items[i])
        THEN [sent |-> <<>>, threw |-> TRUE]
        ELSE [sent |-> <<JsonOk([articles |->
                          [i \in 1..Len(items) |-> Article(items[i])]])>>,
              threw |-> FALSE]

\* the callback without `return` in its `if (err)` branch: it goes on to
\* read result.rss of an undefined result
NewsCallbackNoReturn(err, result) ==
  IF err THEN
    [sent |-> <<Json(500, [error |-> "Failed to parse RSS feed"])>>,
     threw |-> TRUE]
  ELSE NewsCallbackResult(result)

\* The callback handed to parseString.
NewsCallback(err, result) ==
  IF err THEN
    [sent |-> <<Json(500, [error |-> "Failed to parse RSS feed"])>>,
     threw |-> FALSE]
  ELSE NewsCallbackResult(result)

\* The handler after `await axios.get(rssURL)`.  An exception thrown by the
\* callback either reaches the handler's catch (parseString runs the callback
\* synchronously), or is caught by the parser and handed to the callback as
\* its err argument (libCatches).
NewsAfterFetch(up, libCatches) ==
  IF up.kind = "fail" THEN <<Json(500, [error |-> "Failed to fetch news"])>>
  ELSE
    LET p == parseString(up.data)
        cb == NewsCallback(p.err, p.result)
    IN IF ~cb.threw THEN cb.sent
       ELSE IF libCatches THEN cb.sent \o NewsCallback(TRUE, <<>>).sent
       ELSE cb.sent \o <<Json(500, [error |-> "Failed to fetch news"])>>

\* a check that tells only the absent keyword from the present one
KeywordMissingUndefinedOnly(keyword) == keyword = Undefined

\* !keyword
KeywordMissing(keyword) == ~Truthy(keyword)

NewsRequest ==
  /\ pc = "idle"
  /\ \E keyword \in StrVals :
       /\ route' = "/news"
       /\ req' = [keyword |-> keyword]
       /\ IF KeywordMissing(keyword)
            THEN /\ responses' = <<Json(400, [error |-> "Keyword is required"])>>
                 /\ calls' = <<>>
                 /\ pc' = "done"
            ELSE /\ responses' = <<>>
                 /\ calls' = <<[method |-> "GET",
                                url |-> <<"https://news.google.com/rss/search",
                                          "?", "q", "=">>
                                        \o encodeURIComponent(keyword)]>>
                 /\ pc' = "news_await"
  /\ UNCHANGED <<env, upstream>>

NewsResume ==
  /\ pc = "news_await"
  /\ \E up \in NewsUpstreams, libCatches \in BOOLEAN :
       /\ upstream' = up
       /\ responses' = responses \o NewsAfterFetch(up, libCatches)
  /\ pc' = "done"
  /\ UNCHANGED <<env, route, req, calls>>

\* ======================================================== /generate-post
\* The value of req.body.articles.  type is its JavaScript type; elems are
\* the elements when it is an array.  An element is an article object or
\* null.
ArticleElems ==
  {[isNull |-> FALSE, title |-> <<"T1">>, description |-> <<"d1">>],
   [isNull |-> FALSE, title |-> <<"T2">>, description |-> Undefined],
   [isNull |-> TRUE, title |-> Undefined, description |-> Undefined]}

RECURSIVE ArraysOfLen(_)
ArraysOfLen(n) ==
  IF n = 0 THEN {<<>>}
  ELSE {<<a>> \o s : a \in ArticleElems, s \in ArraysOfLen(n - 1)}

ArticlesVals ==
  {[type |-> t, elems |-> <<>>] :
      t \in {"undefined", "null", "emptyString", "string", "object"}}
  \cup {[type |-> "array", elems |-> s] :
          s \in UNION {ArraysOfLen(n) : n \in 0..MaxArticles}}

\* !articles
Falsy(v) == v.type \in {"undefined", "null", "emptyString"}

\* Array.isArray(articles)
IsArray(v) == v.type = "array"

\* the check without its length test
ArticlesRejectedNoLen(articles) == Falsy(articles) \/ ~IsArray(articles)

\* !articles || !Array.isArray(articles) || articles.length === 0
ArticlesRejected(articles) ==
  Falsy(articles) \/ ~IsArray(articles) \/ Len(articles.elems) = 0

\* articles.map((a, i) => `(${i + 1}) ${a.title} - ${a.description}`)
PromptLine(a, i) ==
  <<"(", i, ")", " ">> \o TemplateString(a.title) \o <<" - ">>
    \o TemplateString(a.description)

PromptThrows(elems) == \E i \in 1..Len(elems) : elems[i].isNull

PromptContent(elems) == [i \in 1..Len(elems) |-> PromptLine(elems[i], i)]

\* what the model can answer: text with and without surrounding blanks
LlmTexts ==
  {<<>>, <<" ">>, <<"x">>, <<" ", "x">>, <<"x", " ">>, <<" ", "x", " ", "y", " ">>}

RECURSIVE TrimStart(_)
TrimStart(s) ==
  IF s # <<>> /\ Head(s) = " " THEN TrimStart(Tail(s)) ELSE s

RECURSIVE TrimEnd(_)
TrimEnd(s) ==
  IF s # <<>> /\ s[Len(s)] = " " THEN TrimEnd(SubSeq(s, 1, Len(s) - 1)) ELSE s

\* String.prototype.trim
Trim(s) == TrimEnd(TrimStart(s))

\* Outcomes of axios.post to the chat-completion endpoint.
\*   fail, details <<>>    : no response (network error, timeout)
\*   fail, details <<e>>   : non-2xx response whose body has the property error
\*   ok, text <<t>>        : data.choices[0].message.content is t
\*   ok, text <<>>         : 2xx body without choices[0].message.content
LlmUpstreams ==
  {[kind |-> "fail", details |-> d, text |-> <<>>] :
      d \in {<<>>, <<"rate limited">>}}
  \cup {[kind |-> "ok", details |-> <<>>, text |-> <<t>>] : t \in LlmTexts}
  \cup {[kind |-> "ok", details |-> <<>>, text |-> <<>>]}

GenerateCatch(details) ==
  <<Json(500, [error |-> "Failed to generate post",
               details |-> IF details # <<>> THEN details[1]
                           ELSE "AI service unavailable"])>>

\* The handler after `await axios.post(...)`.
GenerateAfterCall(up) ==
  IF up.kind = "fail" THEN GenerateCatch(up.details)
  ELSE IF up.text = <<>> THEN GenerateCatch(<<>>)  \* TypeError, no .response
  ELSE <<JsonOk([post |-> Trim(up.text[1])])>>

GenerateRequest ==
  /\ pc = "idle"
  /\ \E articles \in ArticlesVals :
       /\ route' = "/generate-post"
       /\ req' = [articles |-> articles]
       /\ IF ArticlesRejected(articles)
            THEN /\ responses' = <<Json(400, [error |-> "Articles required"])>>
                 /\ calls' = <<>>
                 /\ pc' = "done"
            ELSE IF PromptThrows(articles.elems)
              \* a.title on null, outside the try: the handler's promise
              \* rejects and the handler sends nothing
              THEN /\ responses' = <<>>
                   /\ calls' = <<>>
                   /\ pc' = "rejected"
              ELSE /\ responses' = <<>>
                   /\ calls' = <<[method |-> "POST",
                                  url |-> <<"https://openrouter.ai/api/v1/chat/completions">>,
                                  content |-> PromptContent(articles.elems)]>>
                   /\ pc' = "generate_await"
  /\ UNCHANGED <<env, upstream>>

GenerateResume ==
  /\ pc = "generate_await"
  /\ \E up \in LlmUpstreams :
       /\ upstream' = up
       /\ responses' = responses \o GenerateAfterCall(up)
  /\ pc' = "done"
  /\ UNCHANGED <<env, route, req, calls>>

\* ================================================ /auth/linkedin/callback
ErrorRedirect(e, message) == Redirect(FrontendUrl(e) \o <<"?", "error", "=">> \o message)

AuthFailedMessage == <<"LinkedIn", " ", "authentication", " ", "failed">>
NoCodeMessage == <<"Authorization", " ", "code", " ", "not", " ", "provided">>

\* if (error) { return res.redirect(...) }
OAuthErrorRedirect(e, error, error_description) ==
  ErrorRedirect(e, encodeURIComponent(Or(error_description, error)))

\* if (!code) { return res.redirect(...) }
NoCodeRedirect(e) == ErrorRedirect(e, NoCodeMessage)

\* Outcomes of the token exchange.
\*   fail           : no response or a non-2xx response
\*   ok, data <<>>  : 2xx with a null body
\*   ok, data <<d>> : 2xx with body d, whose access_token may be undefined
Tokens == Strs \ {<<>>}

TokenUpstreams ==
  {[kind |-> "fail", data |-> <<>>], [kind |-> "ok", data |-> <<>>]}
  \cup {[kind |-> "ok", data |-> <<[access_token |-> t]>>] :
          t \in Tokens \cup {Undefined}}

TokenRedirect(e, accessToken) ==
  Redirect(FrontendUrl(e) \o <<"?", "linkedin_token", "=">>
             \o TemplateString(accessToken))

CallbackCatch(e) == ErrorRedirect(e, encodeURIComponent(AuthFailedMessage))

\* a catch block that answers with JSON, as the other handlers do
CallbackAfterExchangeJson(e, up) ==
  IF up.kind = "fail" \/ up.data = <<>>
    THEN <<Json(500, [error |-> "LinkedIn authentication failed"])>>
    ELSE <<TokenRedirect(e, up.data[1].access_token)>>

\* The handler after `await axios.post(...)`.
CallbackAfterExchange(e, up) ==
  IF up.kind = "fail" THEN <<CallbackCatch(e)>>
  ELSE IF up.data = <<>> THEN <<CallbackCatch(e)>>  \* null.access_token
  ELSE <<TokenRedirect(e, up.data[1].access_token)>>

\* The checks before the try block: the response sent, or <<>> to go on.
\* the checks without `if (!code)`
CallbackEarlyNoCodeCheck(e, code, error, error_description) ==
  IF Truthy(error) THEN <<OAuthErrorRedirect(e, error, error_description)>>
  ELSE <<>>

CallbackEarly(e, code, error, error_description) ==
  IF Truthy(error) THEN <<OAuthErrorRedirect(e, error, error_description)>>
  ELSE IF ~Truthy(code) THEN <<NoCodeRedirect(e)>>
  ELSE <<>>

CallbackRequest ==
  /\ pc = "idle"
  /\ \E code \in StrVals, error \in StrVals, error_description \in StrVals :
       /\ route' = "/auth/linkedin/callback"
       /\ req' = [code |-> code, error |-> error,
                  error_description |-> error_description]
       /\ LET early == CallbackEarly(env, code, error, error_description) IN
            IF early # <<>>
              THEN /\ responses' = early
                   /\ calls' = <<>>
                   /\ pc' = "done"
              ELSE /\ responses' = <<>>
                   /\ calls' = <<[method |-> "POST",
                                  url |-> <<"https://www.linkedin.com/oauth/v2/accessToken">>,
                                  code |-> code]>>
                   /\ pc' = "callback_await"
  /\ UNCHANGED <<env, upstream>>

CallbackResume ==
  /\ pc = "callback_await"
  /\ \E up \in TokenUpstreams :
       /\ upstream' = up
       /\ responses' = responses \o CallbackAfterExchange(env, up)
  /\ pc' = "done"
  /\ UNCHANGED <<env, route, req, calls>>

\* ========================================================= /linkedin/post
\* Outcomes of axios.post to the publish endpoint.
\*   fail, message <<>>  : no response, or a body without the property message
\*   fail, message <<m>> : non-2xx response whose body has the message m
PublishUpstreams ==
  {[kind |-> "fail", message |-> m] : m \in {<<>>, <<"Unauthorized">>}}
  \cup {[kind |-> "ok", message |-> <<>>]}

\* the check without `|| !content`
PublishRejectedTokenOnly(token, content) == ~Truthy(token)

\* !token || !content
PublishRejected(token, content) == ~Truthy(token) \/ ~Truthy(content)

\* The handler after `await axios.post(...)`.
PublishAfterCall(up) ==
  IF up.kind = "fail"
    THEN <<Json(500, [error |-> "Failed to post on LinkedIn",
                      details |-> IF up.message # <<>> THEN up.message[1]
                                  ELSE "LinkedIn API error"])>>
    ELSE <<JsonOk([success |-> TRUE, message |-> "Posted on LinkedIn!"])>>

PublishRequest ==
  /\ pc = "idle"
  /\ \E token \in StrVals, content \in StrVals :
       /\ route' = "/linkedin/post"
       /\ req' = [token |-> token, content |-> content]
       /\ IF PublishRejected(token, content)
            THEN /\ responses' = <<Json(400, [error |-> "Token and content required"])>>
                 /\ calls' = <<>>
                 /\ pc' = "done"
            ELSE /\ responses' = <<>>
                 /\ calls' = <<[method |-> "POST",
                                url |-> <<"https://api.linkedin.com/v2/ugcPosts">>,
                                bearer |-> token, text |-> content]>>
                 /\ pc' = "publish_await"
  /\ UNCHANGED <<env, upstream>>

PublishResume ==
  /\ pc = "publish_await"
  /\ \E up \in PublishUpstreams :
       /\ upstream' = up
       /\ responses' = responses \o PublishAfterCall(up)
  /\ pc' = "done"
  /\ UNCHANGED <<env, route, req, calls>>

\* ============================================================ life cycle
\* The request is over; the server takes the next one.
Finish ==
  /\ pc \in {"done", "rejected"}
  /\ pc' = "idle"
  /\ route' = "none"
  /\ req' = NoReq
  /\ calls' = <<>>
  /\ upstream' = NoUpstream
  /\ responses' = <<>>
  /\ UNCHANGED env

Init ==
  /\ env \in Envs
  /\ pc = "idle"
  /\ route = "none"
  /\ req = NoReq
  /\ calls = <<>>
  /\ upstream = NoUpstream
  /\ responses = <<>>

Next ==
  \/ NewsRequest
  \/ NewsResume
  \/ GenerateRequest
  \/ GenerateResume
  \/ CallbackRequest
  \/ CallbackResume
  \/ PublishRequest
  \/ PublishResume
  \/ Finish

Spec == Init /\ [][Next]_vars

\* ================================================================ claims
Awaiting == pc \in {"news_await", "generate_await", "callback_await", "publish_await"}

IsNews == route = "/news"
IsGenerate == route = "/generate-post"
IsCallback == route = "/auth/linkedin/callback"
IsPublish == route = "/linkedin/post"

Min(a, b) == IF a < b THEN a ELSE b

\* the first Min(n, 5) items of the feed can be mapped to articles
FirstItemsComplete(items) ==
  \A i \in 1..Min(Len(items), 5) :
    items[i].title # <<>> /\ items[i].link # <<>> /\ items[i].pubDate # <<>>

\* does s contain sub as a contiguous part?
Contains(s, sub) ==
  \E i \in 1..(Len(s) - Len(sub) + 1) : SubSeq(s, i, i + Len(sub) - 1) = sub

\* is pre a prefix of s?
StartsWith(s, pre) == Len(s) >= Len(pre) /\ SubSeq(s, 1, Len(pre)) = pre

\* a redirect to the frontend URL whose error parameter reads back as v
IsErrorRedirect(r, v) ==
  /\ r.kind = "redirect"
  /\ StartsWith(r.location, FrontendUrl(env) \o <<"?">>)
  /\ QueryValue(r.location, "error") = v

\* ------------------------------------------------------------------- C1
\* C1 as stated: a callback request with a non-empty error is answered by
\* a redirect to the frontend URL whose error value contains that error,
\* and no token-exchange call is made.
C1_ErrorValueContainsError ==
  (IsCallback /\ Truthy(req.error)) =>
     /\ pc = "done"
     /\ calls = <<>>
     /\ Len(responses) = 1
     /\ responses[1].kind = "redirect"
     /\ StartsWith(responses[1].location, FrontendUrl(env) \o <<"?">>)
     /\ Contains(QueryValue(responses[1].location, "error"), req.error)

\* C1 amended: a callback request with a non-empty error is answered by
\* exactly one redirect to the frontend URL whose error value is the
\* error_description when that is non-empty and the error otherwise, and
\* no token-exchange call is made, whatever code is.
C1_ErrorValueIsDescriptionOrError ==
  (IsCallback /\ Truthy(req.error)) =>
     /\ pc = "done"
     /\ calls = <<>>
     /\ Len(responses) = 1
     /\ IsErrorRedirect(responses[1],
                        IF Truthy(req.error_description)
                          THEN req.error_description ELSE req.error)

C1_Witness ==
  /\ IsCallback /\ pc = "done"
  /\ req.error = <<"a">>
  /\ req.error_description = <<"&", "a">>
  /\ Truthy(req.code)
  /\ Len(responses) = 1

\* ------------------------------------------------------------------- C2
\* the outbound call failed, or the handler failed on what it returned
OutboundFailed ==
  \/ upstream.kind = "fail"
  \/ /\ IsNews /\ upstream.kind = "ok"
     /\ \/ parseString(upstream.data).err
        \/ upstream.data.xml = "blank"
        \/ /\ upstream.data.xml = "items"
           /\ ~FirstItemsComplete(upstream.data.items)
  \/ IsGenerate /\ upstream.kind = "ok" /\ upstream.text = <<>>
  \/ IsCallback /\ upstream.kind = "ok" /\ upstream.data = <<>>

IsFailureResponse(r) ==
  \/ r.kind = "json" /\ r.status = 500
  \/ IsCallback /\ IsErrorRedirect(r, AuthFailedMessage)

\* C2: a request whose outbound call, or the processing of its result,
\* failed has exactly one response, a failure response, and exactly one
\* outbound call was made for it; while the call is awaited nothing has
\* been sent, and no request ever has a second outbound call.
C2_FailureGivesExactlyOneResponse ==
  /\ Len(calls) <= 1
  /\ Awaiting => (responses = <<>> /\ Len(calls) = 1)
  /\ (pc = "done" /\ OutboundFailed) =>
        /\ Len(calls) = 1
        /\ Len(responses) = 1
        /\ IsFailureResponse(responses[1])

C2_Witness ==
  /\ pc = "done" /\ IsNews /\ upstream.kind = "ok"
  /\ upstream.data.xml = "malformed"
  /\ Len(responses) = 1

\* ------------------------------------------------------------------- C3
NewsSucceeded ==
  IsNews /\ pc = "done" /\ Len(responses) = 1 /\ responses[1].status = 200

\* C3 as stated: a success response of /news has at most 5 articles, each
\* with a non-empty title and a non-empty link.
C3_ArticlesNonEmptyTitleAndLink ==
  NewsSucceeded =>
     LET articles == responses[1].body.articles IN
       /\ Len(articles) <= 5
       /\ \A i \in 1..Len(articles) :
            articles[i].title # "" /\ articles[i].link # ""

\* C3 amended: a success response of /news has at most 5 articles, and
\* each has a title and a link that are the text of the first title and
\* link element of its feed item: empty exactly when that element is.
C3_AtMostFiveWithFeedTitleAndLink ==
  NewsSucceeded =>
     LET articles == responses[1].body.articles
         items == upstream.data.items
     IN /\ Len(articles) <= 5
        /\ Len(articles) <= Len(items)
        /\ \A i \in 1..Len(articles) :
             /\ items[i].title # <<>> /\ items[i].link # <<>>
             /\ articles[i].title = items[i].title[1][1]
             /\ articles[i].link = items[i].link[1][1]

C3_Witness ==
  /\ NewsSucceeded
  /\ Len(upstream.data.items) = 6
  /\ Len(responses[1].body.articles) = 5
  /\ upstream.data.items[2] = ItemBlank
  /\ responses[1].body.articles[1].title = "T1"
  /\ responses[1].body.articles[2].title = ""
  /\ responses[1].body.articles[2].link = ""

\* ------------------------------------------------------------------- C4
\* the parsed feed has no rss/channel/item structure
LacksStructure(data) == data.xml \in {"blank", "other", "emptyRss", "noItems"}

\* C4: a malformed feed body is answered with 500, a feed that parses but
\* lacks the rss/channel/item structure (a parse that yields no document
\* included) with 404, and neither with 200 or with no response.
C4_MalformedIs500AndNoStructureIs404 ==
  (IsNews /\ pc = "done" /\ upstream.kind = "ok") =>
     /\ upstream.data.xml = "malformed" =>
          (Len(responses) = 1 /\ responses[1].status = 500)
     /\ LacksStructure(upstream.data) =>
          (Len(responses) = 1 /\ responses[1].status = 404)

\* ------------------------------------------------------------------- C5
\* C5: a /news request without a keyword (absent or empty) is answered
\* with 400, and at no point of its handling is there an outbound call.
C5_NoKeywordIs400WithoutCall ==
  (IsNews /\ ~Truthy(req.keyword)) =>
     /\ pc = "done"
     /\ calls = <<>>
     /\ responses = <<Json(400, [error |-> "Keyword is required"])>>

C5_Witness ==
  IsNews /\ req.keyword = <<>> /\ pc = "done" /\ Len(responses) = 1

\* ------------------------------------------------------------------- C6
\* C6: /generate-post with articles missing, not an array or an empty
\* array is answered with 400 {"error": "Articles required"}, and the
\* language-model endpoint is never called.
C6_NoArticlesIs400WithoutCall ==
  (IsGenerate /\ (\/ req.articles.type # "array"
                  \/ req.articles.elems = <<>>)) =>
     /\ pc = "done"
     /\ calls = <<>>
     /\ responses = <<Json(400, [error |-> "Articles required"])>>

C6_Witness ==
  /\ IsGenerate /\ pc = "done"
  /\ req.articles.type = "array" /\ req.articles.elems = <<>>
  /\ Len(responses) = 1

\* ------------------------------------------------------------------- C7
\* C7: /linkedin/post with token or content missing or empty is answered
\* with 400, and no publish call is made.
C7_NoTokenOrContentIs400WithoutCall ==
  (IsPublish /\ (\/ req.token \in {Undefined, <<>>}
                 \/ req.content \in {Undefined, <<>>})) =>
     /\ pc = "done"
     /\ calls = <<>>
     /\ Len(responses) = 1
     /\ responses[1].kind = "json"
     /\ responses[1].status = 400

C7_Witness ==
  /\ IsPublish /\ pc = "done"
  /\ req.token = <<"a">> /\ req.content = <<>>
  /\ Len(responses) = 1

\* ------------------------------------------------------------------- C8
\* C8: a callback request with neither code nor error is answered by a
\* redirect to the frontend URL with the error "Authorization code not
\* provided", and no token-exchange call is made.
C8_NoCodeNoErrorRedirects ==
  (IsCallback /\ req.code = Undefined /\ req.error = Undefined) =>
     /\ pc = "done"
     /\ calls = <<>>
     /\ Len(responses) = 1
     /\ IsErrorRedirect(responses[1], NoCodeMessage)

C8_Witness ==
  /\ IsCallback /\ pc = "done"
  /\ req.code = Undefined /\ req.error = Undefined
  /\ req.error_description = <<"a">>
  /\ Len(responses) = 1

\* ------------------------------------------------------------------- C9
ExchangeSucceeded == upstream.kind = "ok" /\ upstream.data # <<>>

IsTokenRedirect(r, token) ==
  /\ r.kind = "redirect"
  /\ r.location = FrontendUrl(env) \o <<"?", "linkedin_token", "=">>
                    \o (IF token = Undefined THEN <<"undefined">> ELSE token)

C10_FirstFiveInFeedOrder ==
  /\ NewsSucceeded =>
       LET articles == responses[1].body.articles
           items == upstream.data.items
       IN /\ upstream.data.xml = "items"
          /\ Len(articles) = Min(Len(items), 5)
          /\ \A i \in 1..Len(articles) :
               articles[i] =
                 [title |-> items[i].title[1][1],
                  link |-> items[i].link[1][1],
                  pubDate |-> items[i].pubDate[1][1],
                  description |->
                    IF items[i].description = <<>>
                      THEN "No description available"
                      ELSE items[i].description[1][1]]
  /\ (/\ IsNews /\ pc = "done" /\ upstream.kind = "ok"
      /\ upstream.data.xml = "items"
      /\ FirstItemsComplete(upstream.data.items)) => NewsSucceeded

C10_Witness ==
  /\ NewsSucceeded
  /\ Len(upstream.data.items) = 7
  /\ Len(responses[1].body.articles) = 5
  /\ upstream.data.items[1] = ItemBlank
  /\ upstream.data.items[2] = ItemFull
  /\ upstream.data.items[6] = ItemNoTitle
  /\ responses[1].body.articles[1].description = "No description available"
  /\ responses[1].body.articles[2].title = "T1"

====
